---- MODULE Spec2Model ----
(***************************************************************************)
(* Undo/redo history of pydemo.util.canvas.Canvas as implemented by        *)
(* pydemo.mypaint_canvas.MypaintCanvas, over a small raster surface.       *)
(*                                                                         *)
(* An image is a record [w, h, px]: px is the row-major sequence of pixel  *)
(* values, 0 being transparent.  The brush engine's surface is one image.  *)
(* Every method is an operator from the canvas record `self` (and the      *)
(* arguments) to the canvas record after the call; every action applies    *)
(* one public method to the current state.                                 *)
(***************************************************************************)
EXTENDS Integers, Sequences, FiniteSets, TLC

VARIABLES
    undo_stack,   \* Canvas._undo_stack: sequence of UndoState, newest last
    redo_stack,   \* Canvas._redo_stack: sequence of UndoState, newest last
    surface,      \* the brush engine's surface (size and pixels)
    size_attr,    \* MypaintCanvas._size
    visible,      \* MypaintCanvas._visible
    enabled,      \* Canvas._enabled
    drawing,      \* MypaintCanvas._drawing
    has_sketch,   \* MypaintCanvas._has_sketch
    saved_image,  \* MypaintCanvas._saved_image
    brush_size,   \* Canvas._brush_size
    radius_log,   \* the brush engine's RADIUS_LOGARITHMIC setting
    saved_brush_size, \* MypaintCanvas._saved_brush_size
    overriding,   \* the size_override argument of the last call, None without one
    now,          \* the clock read by datetime.datetime.now()
    op,           \* name of the last method called
    err,          \* exception that ended the last call, "none" if it returned
    edit,         \* history: the logical edit in progress, finished or undone
    round,        \* history: an undo() and the redo() called right after it
    evicted,      \* history: images of the snapshots dropped for capacity
    view,         \* the last placement computed, with its arguments
    budget        \* calls still allowed, per kind of call

vars == <<undo_stack, redo_stack, surface, size_attr, visible, enabled, drawing,
          has_sketch, saved_image, brush_size, radius_log, saved_brush_size,
          overriding, now, op, err, edit, round, evicted, view, budget>>

----------------------------------------------------------------------------
(* Program constant *)

MAX_UNDO == 30

(* Bounds of the model *)

MaxTime == 1       \* the clock ranges over 0..MaxTime
MaxCalls == 4      \* method calls in Spec
CapExtra == 6      \* SpecCap starts with MAX_UNDO + CapExtra fill() calls to spend
CapCalls == 2      \* further method calls in SpecCap
EvictCalls == 7    \* calls of undo(), redo() (or further fills) in SpecEvict
MaxSide == 4       \* widths and heights of containers and contents range over 0..MaxSide
MaxMargin == 2     \* margins range over 0..MaxMargin
ViewCalls == 4     \* calls made on the view in SpecView
BrushCalls == 4    \* calls made in SpecBrush
MenuFills == 2     \* fill() calls SpecMenu starts with
MenuCalls == 4     \* further calls and menu actions in SpecMenu

----------------------------------------------------------------------------
(* Values *)

None == [none |-> TRUE]

Some(v) == [value |-> v]

QSize(w, h) == [w |-> w, h |-> h]

(* Input domains: canvas and image sizes, opaque colours, pixel values *)
(* (0 is transparent) and the columns a pointer position can fall on.  *)
Sizes == {QSize(1, 1), QSize(2, 1)}

Colors == {1, 2}

Pixels == {0} \cup Colors

Columns == {0, 1}

SizeOf(image) == QSize(image.w, image.h)

Filled(size, c) == [w |-> size.w, h |-> size.h, px |-> [i \in 1..(size.w * size.h) |-> c]]

Blank(size) == Filled(size, 0)

ImagesOf(size) == {[w |-> size.w, h |-> size.h, px |-> p] : p \in [1..(size.w * size.h) -> Pixels]}

Images == UNION {ImagesOf(s) : s \in Sizes}

IsQImage(x) == "px" \in DOMAIN x

IsQSize(x) == DOMAIN x = {"w", "h"}

Front(s) == SubSeq(s, 1, Len(s) - 1)

Last(s) == s[Len(s)]

(* QImage.scaled(size): nearest-neighbour resampling to the given size. *)
Scaled(image, size) ==
    [w |-> size.w, h |-> size.h,
     px |-> [i \in 1..(size.w * size.h) |->
                LET x == (i - 1) % size.w
                    y == (i - 1) \div size.w
                    sx == (x * image.w) \div size.w
                    sy == (y * image.h) \div size.h
                IN image.px[sy * image.w + sx + 1]]]

(* Canvas.UndoState(image): the image and the time of its creation. *)
UndoState(image, t) == [image |-> image, timestamp |-> t]

----------------------------------------------------------------------------
(* The brush engine (libmypaint binding), as far as the canvas uses it *)

ClearSurface(surf) == Blank(SizeOf(surf))

SetSurfaceSize(surf, size) == Blank(size)

LoadImage(surf, image) == image

(* One dab at column x of row 0; nothing is painted outside the surface. *)
StrokeTo(surf, x, color) ==
    IF x >= 0 /\ x < surf.w THEN [surf EXCEPT !.px[x + 1] = color] ELSE surf

----------------------------------------------------------------------------
(* MypaintCanvas and Canvas methods: self -> self after the call *)

(* ---- get_scaled_placement (util/get_scaled_placement.py) ---- *)

QRect(x, y, width, height) == [x |-> x, y |-> y, width |-> width, height |-> height]

(* int(p / q) for q > 0: Python's int() cuts a float towards zero. *)
Trunc(p, q) == IF p >= 0 THEN p \div q ELSE -((-p) \div q)

(* Variant of get_scaled_placement that centres along the x axis only.     *)
get_scaled_placement_top(container_rect, inner_size, margin_width) ==
    LET container_size == QSize(container_rect.width - margin_width * 2,
                                container_rect.height - margin_width * 2)
        den_w == IF inner_size.w > 1 THEN inner_size.w ELSE 1
        den_h == IF inner_size.h > 1 THEN inner_size.h ELSE 1
        scale == IF container_size.h * den_w < container_size.w * den_h
                 THEN [num |-> container_size.h, den |-> den_h]
                 ELSE [num |-> container_size.w, den |-> den_w]
        x0 == container_rect.x + margin_width
        x == IF inner_size.w * scale.num < container_size.w * scale.den
             THEN x0 * 2 * scale.den + (container_size.w * scale.den - inner_size.w * scale.num)
             ELSE x0 * 2 * scale.den
    IN QRect(Trunc(x, 2 * scale.den), container_rect.y + margin_width,
             Trunc(inner_size.w * scale.num, scale.den),
             Trunc(inner_size.h * scale.num, scale.den))

(* Variant of get_scaled_placement that takes the margin off the container *)
(* size once, not on both sides.                                           *)
get_scaled_placement_one_margin(container_rect, inner_size, margin_width) ==
    LET container_size == QSize(container_rect.width - margin_width,
                                container_rect.height - margin_width)
        den_w == IF inner_size.w > 1 THEN inner_size.w ELSE 1
        den_h == IF inner_size.h > 1 THEN inner_size.h ELSE 1
        scale == IF container_size.h * den_w < container_size.w * den_h
                 THEN [num |-> container_size.h, den |-> den_h]
                 ELSE [num |-> container_size.w, den |-> den_w]
        x0 == container_rect.x + margin_width
        y0 == container_rect.y + margin_width
        x == IF inner_size.w * scale.num < container_size.w * scale.den
             THEN x0 * 2 * scale.den + (container_size.w * scale.den - inner_size.w * scale.num)
             ELSE x0 * 2 * scale.den
        y == IF inner_size.h * scale.num < container_size.h * scale.den
             THEN y0 * 2 * scale.den + (container_size.h * scale.den - inner_size.h * scale.num)
             ELSE y0 * 2 * scale.den
    IN QRect(Trunc(x, 2 * scale.den), Trunc(y, 2 * scale.den),
             Trunc(inner_size.w * scale.num, scale.den),
             Trunc(inner_size.h * scale.num, scale.den))

(* The floats of the code are the exact quotients here: scale is kept as   *)
(* the pair [num, den] with den > 0; min(a, b) is b only when b < a.       *)
get_scaled_placement(container_rect, inner_size, margin_width) ==
    LET container_size == QSize(container_rect.width - margin_width * 2,
                                container_rect.height - margin_width * 2)
        den_w == IF inner_size.w > 1 THEN inner_size.w ELSE 1
        den_h == IF inner_size.h > 1 THEN inner_size.h ELSE 1
        scale == IF container_size.h * den_w < container_size.w * den_h
                 THEN [num |-> container_size.h, den |-> den_h]
                 ELSE [num |-> container_size.w, den |-> den_w]
        x0 == container_rect.x + margin_width
        y0 == container_rect.y + margin_width
        \* x and y as numerators over 2 * scale.den
        x == IF inner_size.w * scale.num < container_size.w * scale.den
             THEN x0 * 2 * scale.den + (container_size.w * scale.den - inner_size.w * scale.num)
             ELSE x0 * 2 * scale.den
        y == IF inner_size.h * scale.num < container_size.h * scale.den
             THEN y0 * 2 * scale.den + (container_size.h * scale.den - inner_size.h * scale.num)
             ELSE y0 * 2 * scale.den
    IN QRect(Trunc(x, 2 * scale.den), Trunc(y, 2 * scale.den),
             Trunc(inner_size.w * scale.num, scale.den),
             Trunc(inner_size.h * scale.num, scale.den))

size(self) == SizeOf(self.surface)

(* width() and height() read the _size attribute, not the surface. *)
canvas_width(self) == self.size_attr.w

canvas_height(self) == self.size_attr.h

get_qimage(self) ==
    LET image == self.surface
    IN IF SizeOf(image) # size(self) THEN Scaled(image, size(self)) ELSE image

set_image(self, image_data) ==
    LET cleared == [self EXCEPT !.surface = ClearSurface(@)]
    IN IF IsQSize(image_data)
       THEN IF size(cleared) # image_data
            THEN [cleared EXCEPT !.surface = SetSurfaceSize(@, image_data)]
            ELSE cleared
       ELSE LET sized == IF size(cleared) # SizeOf(image_data)
                         THEN [cleared EXCEPT !.surface = SetSurfaceSize(@, SizeOf(image_data))]
                         ELSE cleared
            IN [sized EXCEPT !.surface = LoadImage(@, image_data)]

(* Variants of _save_undo_state with one plausible slip each: no         *)
(* truncation; truncation that keeps the oldest entries; a redo stack      *)
(* cleared whatever the flag says.                                         *)
save_undo_state_untruncated(self, t, clear_redo_stack) ==
    [self EXCEPT !.undo_stack = Append(@, UndoState(get_qimage(self), t)),
                 !.redo_stack = IF clear_redo_stack THEN <<>> ELSE @]

save_undo_state_keeps_oldest(self, t, clear_redo_stack) ==
    LET pushed == Append(self.undo_stack, UndoState(get_qimage(self), t))
        kept == IF Len(pushed) > MAX_UNDO THEN SubSeq(pushed, 1, MAX_UNDO) ELSE pushed
    IN [self EXCEPT !.undo_stack = kept,
                    !.redo_stack = IF clear_redo_stack THEN <<>> ELSE @]

save_undo_state_always_clears(self, t, clear_redo_stack) ==
    LET pushed == Append(self.undo_stack, UndoState(get_qimage(self), t))
        kept == IF Len(pushed) > MAX_UNDO
                THEN SubSeq(pushed, Len(pushed) - MAX_UNDO + 1, Len(pushed))
                ELSE pushed
    IN [self EXCEPT !.undo_stack = kept, !.redo_stack = <<>>]

(* Variant of _save_undo_state that moves the entries it drops for         *)
(* capacity to the redo stack.                                             *)
save_undo_state_evicts_to_redo(self, t, clear_redo_stack) ==
    LET pushed == Append(self.undo_stack, UndoState(get_qimage(self), t))
        over == IF Len(pushed) > MAX_UNDO THEN Len(pushed) - MAX_UNDO ELSE 0
    IN [self EXCEPT !.undo_stack = SubSeq(pushed, over + 1, Len(pushed)),
                    !.redo_stack = (IF clear_redo_stack THEN <<>> ELSE @)
                                       \o SubSeq(pushed, 1, over)]

save_undo_state(self, t, clear_redo_stack) ==
    LET image == get_qimage(self)
        pushed == Append(self.undo_stack, UndoState(image, t))
        kept == IF Len(pushed) > MAX_UNDO
                THEN SubSeq(pushed, Len(pushed) - MAX_UNDO + 1, Len(pushed))
                ELSE pushed
    IN [self EXCEPT !.undo_stack = kept,
                    !.redo_stack = IF clear_redo_stack THEN <<>> ELSE @]

(* Variant of undo() that reads the newest undo entry without popping it.  *)
undo_keeps_entry(self, t) ==
    IF Len(self.undo_stack) = 0
    THEN self
    ELSE LET image == get_qimage(self)
             pushed == [self EXCEPT !.redo_stack = Append(@, UndoState(image, t))]
             new_image == Last(self.undo_stack).image
             fitted == IF SizeOf(new_image) # size(pushed)
                       THEN Scaled(new_image, size(pushed))
                       ELSE new_image
         IN set_image(pushed, fitted)

(* undo() without its check of the empty stack: the redo entry is pushed   *)
(* before the pop from the empty list raises.                              *)
undo_unguarded(self, t) ==
    LET image == get_qimage(self)
    IN IF Len(self.undo_stack) = 0
       THEN [self EXCEPT !.redo_stack = Append(@, UndoState(image, t)),
                         !.err = "IndexError"]
       ELSE LET pushed == [self EXCEPT !.redo_stack = Append(@, UndoState(image, t)),
                                       !.undo_stack = Front(@)]
                new_image == Last(self.undo_stack).image
                fitted == IF SizeOf(new_image) # size(pushed)
                          THEN Scaled(new_image, size(pushed))
                          ELSE new_image
            IN set_image(pushed, fitted)

(* Variant of undo() that captures the redo entry after installing the    *)
(* restored image instead of before.                                       *)
undo_captures_late(self, t) ==
    IF Len(self.undo_stack) = 0
    THEN self
    ELSE LET new_image == Last(self.undo_stack).image
             fitted == IF SizeOf(new_image) # size(self)
                       THEN Scaled(new_image, size(self))
                       ELSE new_image
             installed == set_image([self EXCEPT !.undo_stack = Front(@)], fitted)
         IN [installed EXCEPT !.redo_stack = Append(@, UndoState(get_qimage(installed), t))]

undo(self, t) ==
    IF Len(self.undo_stack) = 0
    THEN self
    ELSE LET image == get_qimage(self)
             pushed == [self EXCEPT !.redo_stack = Append(@, UndoState(image, t)),
                                    !.undo_stack = Front(@)]
             new_image == Last(self.undo_stack).image
             fitted == IF SizeOf(new_image) # size(pushed)
                       THEN Scaled(new_image, size(pushed))
                       ELSE new_image
         IN set_image(pushed, fitted)

(* redo() without its check of the empty stack: the save is made before    *)
(* the pop from the empty list raises.                                     *)
redo_unguarded(self, t) ==
    LET saved == save_undo_state(self, t, FALSE)
    IN IF Len(self.redo_stack) = 0
       THEN [saved EXCEPT !.err = "IndexError"]
       ELSE LET image == Last(saved.redo_stack)
                popped == [saved EXCEPT !.redo_stack = Front(@)]
            IN IF ~IsQImage(image)
               THEN [popped EXCEPT !.err = "AttributeError"]
               ELSE LET fitted == IF SizeOf(image) # size(popped)
                                  THEN Scaled(image, size(popped))
                                  ELSE image
                    IN set_image(popped, fitted)

(* redo() pops the UndoState itself, not its image: the call of size() on  *)
(* it raises AttributeError after the save and the pop have been done.     *)
redo(self, t) ==
    IF Len(self.redo_stack) = 0
    THEN self
    ELSE LET saved == save_undo_state(self, t, FALSE)
             image == Last(saved.redo_stack)
             popped == [saved EXCEPT !.redo_stack = Front(@)]
         IN IF ~IsQImage(image)
            THEN [popped EXCEPT !.err = "AttributeError"]
            ELSE LET fitted == IF SizeOf(image) # size(popped)
                               THEN Scaled(image, size(popped))
                               ELSE image
                 IN set_image(popped, fitted)

undo_count(self) == Len(self.undo_stack)

redo_count(self) == Len(self.undo_stack)

(* The queries return [err, value]: value is None or Some(timestamp). *)
last_undo_timestamp(self) ==
    IF undo_count(self) = 0
    THEN [err |-> "none", value |-> None]
    ELSE [err |-> "none", value |-> Some(Last(self.undo_stack).timestamp)]

last_redo_timestamp(self) ==
    IF redo_count(self) = 0
    THEN [err |-> "none", value |-> None]
    ELSE IF Len(self.redo_stack) = 0
         THEN [err |-> "IndexError", value |-> None]
         ELSE [err |-> "none", value |-> Some(Last(self.redo_stack).timestamp)]

(* Variant of clear_undo_history() that forgets the redo stack.            *)
clear_undo_history_keeps_redo(self) == [self EXCEPT !.undo_stack = <<>>]

clear_undo_history(self) == [self EXCEPT !.undo_stack = <<>>, !.redo_stack = <<>>]

(* Variant of clear() whose snapshot is not a copy: it shares the buffer   *)
(* of the live image, and shows the cleared content afterwards.            *)
clear_shares_snapshot(self, t) ==
    LET saved == save_undo_state(self, t, TRUE)
        cleared == [saved EXCEPT !.has_sketch = FALSE, !.surface = ClearSurface(@)]
    IN [cleared EXCEPT
           !.undo_stack = [@ EXCEPT ![Len(@)] = UndoState(get_qimage(cleared), t)]]

clear(self, t) ==
    LET saved == save_undo_state(self, t, TRUE)
    IN [saved EXCEPT !.has_sketch = FALSE, !.surface = ClearSurface(@)]

(* Variant of fill() that saves the undo state after painting.            *)
fill_saves_late(self, t, color) ==
    IF ~self.visible
    THEN self
    ELSE LET painted == set_image([self EXCEPT !.has_sketch = TRUE], Filled(size(self), color))
         IN save_undo_state(painted, t, TRUE)

fill(self, t, color) ==
    IF ~self.visible
    THEN self
    ELSE LET saved == save_undo_state(self, t, TRUE)
             image == Filled(size(saved), color)
         IN set_image([saved EXCEPT !.has_sketch = TRUE], image)

start_stroke(self, t) ==
    IF ~self.visible
    THEN self
    ELSE [save_undo_state(self, t, TRUE) EXCEPT !.drawing = TRUE]

(* math.log(p / q): defined for a positive quotient only, and one value   *)
(* per quotient.                                                          *)
Log(p, q) == [log |-> <<p, q>>]

(* Canvas.set_brush_size() stores the size; math.log() then raises for a  *)
(* size of zero, before the engine is given a radius.                     *)
set_brush_size(self, brush) ==
    LET stored == [self EXCEPT !.brush_size = brush]
    IN IF brush <= 0
       THEN [stored EXCEPT !.err = "ValueError"]
       ELSE [stored EXCEPT !.radius_log = Log(brush, 2)]

brush_size_of(self) == self.brush_size

end_stroke(self) ==
    IF ~self.visible
    THEN self
    ELSE LET ended == [self EXCEPT !.drawing = FALSE]
         IN IF ended.saved_brush_size # None
            THEN LET restored == set_brush_size(ended, ended.saved_brush_size.value)
                 IN IF restored.err # "none"
                    THEN restored
                    ELSE [restored EXCEPT !.saved_brush_size = None]
            ELSE ended

(* pos is a point [x] or a line [x1, x2]. *)
IsQLine(pos) == "x1" \in DOMAIN pos

(* The first lines of _draw(): an overriding size is set as the brush     *)
(* size, the size it replaces being kept if none is kept already.  An    *)
(* Optional[int] is None or Some(n).                                      *)
override(self, size_override) ==
    IF size_override # None
    THEN LET kept == IF self.saved_brush_size = None
                     THEN [self EXCEPT !.saved_brush_size = Some(brush_size_of(self))]
                     ELSE self
         IN set_brush_size(kept, size_override.value)
    ELSE self

(* Variant of _draw() that never starts a stroke itself. *)
draw_never_starts(self, t, pos, color, size_override) ==
    IF ~self.visible
    THEN self
    ELSE LET sized == override(self, size_override)
             marked == [sized EXCEPT !.has_sketch = TRUE]
         IN IF sized.err # "none"
            THEN sized
            ELSE IF IsQLine(pos)
            THEN [marked EXCEPT !.surface = StrokeTo(@, pos.x2, color)]
            ELSE [marked EXCEPT !.surface = StrokeTo(@, pos.x, color)]

(* Variant of _draw() that starts a stroke, and so saves, at every call.   *)
draw_saves_each_time(self, t, pos, color, size_override) ==
    IF ~self.visible
    THEN self
    ELSE LET sized == override(self, size_override)
             marked == [sized EXCEPT !.has_sketch = TRUE]
             started == LET s == start_stroke(marked, t)
                        IN IF IsQLine(pos) /\ ~marked.drawing
                           THEN [s EXCEPT !.surface = StrokeTo(@, pos.x1, color)]
                           ELSE s
         IN IF sized.err # "none"
            THEN sized
            ELSE IF IsQLine(pos)
            THEN [started EXCEPT !.surface = StrokeTo(@, pos.x2, color)]
            ELSE [started EXCEPT !.surface = StrokeTo(@, pos.x, color)]

draw(self, t, pos, color, size_override) ==
    IF ~self.visible
    THEN self
    ELSE LET sized == override(self, size_override)
             marked == [sized EXCEPT !.has_sketch = TRUE]
             started == IF ~marked.drawing
                        THEN LET s == start_stroke(marked, t)
                             IN IF IsQLine(pos)
                                THEN [s EXCEPT !.surface = StrokeTo(@, pos.x1, color)]
                                ELSE s
                        ELSE marked
         IN IF sized.err # "none"
            THEN sized
            ELSE IF IsQLine(pos)
            THEN [started EXCEPT !.surface = StrokeTo(@, pos.x2, color)]
            ELSE [started EXCEPT !.surface = StrokeTo(@, pos.x, color)]

draw_point(self, t, point, color, size_override) ==
    IF ~self.visible THEN self ELSE draw(self, t, point, color, size_override)

draw_line(self, t, line, color, size_override) ==
    IF ~self.visible THEN self ELSE draw(self, t, line, color, size_override)

setVisible(self, t, v) ==
    IF v = self.visible
    THEN self
    ELSE LET set == [self EXCEPT !.visible = v]
         IN IF v
            THEN IF set.saved_image # None
                 THEN [set_image(set, set.saved_image) EXCEPT !.saved_image = None]
                 ELSE set
            ELSE clear([set EXCEPT !.saved_image = get_qimage(set)], t)

set_enabled(self, t, e) ==
    IF e # self.enabled
    THEN setVisible([self EXCEPT !.enabled = e], t, e)
    ELSE self

resize(self, new_size) ==
    LET set == [self EXCEPT !.size_attr = new_size]
    IN IF new_size # size(set)
       THEN set_image(set, Scaled(get_qimage(set), new_size))
       ELSE set

----------------------------------------------------------------------------
(* State and actions *)

Self ==
    [undo_stack |-> undo_stack, redo_stack |-> redo_stack, surface |-> surface,
     size_attr |-> size_attr, visible |-> visible, enabled |-> enabled,
     drawing |-> drawing, has_sketch |-> has_sketch, saved_image |-> saved_image,
     brush_size |-> brush_size, radius_log |-> radius_log,
     saved_brush_size |-> saved_brush_size, overriding |-> None,
     err |-> "none"]

(* The image of the entry a save dropped for capacity: the stack was full, *)
(* is full, and its entries moved down by one.                             *)
Dropped(old, new) ==
    IF Len(old) = MAX_UNDO /\ Len(new) = MAX_UNDO /\ new # old /\ Front(new) = Tail(old)
    THEN {old[1].image}
    ELSE {}

Install(self) ==
    /\ undo_stack' = self.undo_stack
    /\ redo_stack' = self.redo_stack
    /\ surface' = self.surface
    /\ size_attr' = self.size_attr
    /\ visible' = self.visible
    /\ enabled' = self.enabled
    /\ drawing' = self.drawing
    /\ has_sketch' = self.has_sketch
    /\ saved_image' = self.saved_image
    /\ brush_size' = self.brush_size
    /\ radius_log' = self.radius_log
    /\ saved_brush_size' = self.saved_brush_size
    /\ overriding' = self.overriding
    /\ err' = self.err
    /\ evicted' = evicted \cup Dropped(undo_stack, self.undo_stack)
    /\ UNCHANGED view

(* A call spends one unit of the budget; fill() spends its own units first. *)
Spend(kind) ==
    IF kind = "fills" /\ budget.fills > 0
    THEN budget' = [budget EXCEPT !.fills = @ - 1]
    ELSE /\ budget.calls > 0
         /\ budget' = [budget EXCEPT !.calls = @ - 1]

NoEdit == [phase |-> "none", pre |-> None]

NoRound == [phase |-> "none", before |-> None]

(* MypaintCanvas(size): Canvas.__init__ then set_image(size). *)
InitWith(b, sizes, t0) ==
    /\ undo_stack = <<>>
    /\ redo_stack = <<>>
    /\ surface \in {Blank(s) : s \in sizes}
    /\ size_attr = SizeOf(surface)
    /\ visible = TRUE
    /\ enabled = TRUE
    /\ drawing = FALSE
    /\ has_sketch = FALSE
    /\ saved_image = None
    /\ brush_size = 1
    /\ radius_log = None
    /\ saved_brush_size = None
    /\ overriding = None
    /\ now = t0
    /\ op = "init"
    /\ err = "none"
    /\ edit = NoEdit
    /\ round = NoRound
    /\ evicted = {}
    /\ budget = b

Init == InitWith([fills |-> 0, calls |-> MaxCalls], Sizes, 0) /\ view = None

(* datetime.datetime.now(): the clock has not gone back since it was last read. *)
Clock == now..MaxTime

Undo ==
    /\ Spend("calls")
    /\ \E t \in Clock : now' = t /\ Install(undo(Self, t))
    /\ op' = "undo"
    /\ edit' = IF edit.phase = "done" THEN [edit EXCEPT !.phase = "undone"] ELSE NoEdit
    /\ round' = IF Len(undo_stack) > 0 THEN [phase |-> "undo", before |-> surface] ELSE NoRound

Redo ==
    /\ Spend("calls")
    /\ \E t \in Clock : now' = t /\ Install(redo(Self, t))
    /\ op' = "redo"
    /\ edit' = NoEdit
    /\ round' = IF round.phase = "undo" THEN [round EXCEPT !.phase = "undo_redo"] ELSE NoRound

ClearUndoHistory ==
    /\ Spend("calls")
    /\ Install(clear_undo_history(Self))
    /\ op' = "clear_undo_history"
    /\ edit' = NoEdit
    /\ UNCHANGED now
    /\ round' = NoRound

SetEnabled(e) ==
    /\ Spend("calls")
    /\ \E t \in Clock : now' = t /\ Install(set_enabled(Self, t, e))
    /\ op' = "set_enabled"
    /\ edit' = NoEdit
    /\ round' = NoRound

SetImage(image_data) ==
    /\ Spend("calls")
    /\ Install(set_image(Self, image_data))
    /\ op' = "set_image"
    /\ edit' = NoEdit
    /\ UNCHANGED now
    /\ round' = NoRound

Resize(new_size) ==
    /\ Spend("calls")
    /\ Install(resize(Self, new_size))
    /\ op' = "resize"
    /\ edit' = NoEdit
    /\ UNCHANGED now
    /\ round' = NoRound

Fill(color) ==
    /\ Spend("fills")
    /\ \E t \in Clock : now' = t /\ Install(fill(Self, t, color))
    /\ op' = "fill"
    /\ edit' = IF visible THEN [phase |-> "done", pre |-> surface] ELSE NoEdit
    /\ round' = NoRound

Clear ==
    /\ Spend("calls")
    /\ \E t \in Clock : now' = t /\ Install(clear(Self, t))
    /\ op' = "clear"
    /\ edit' = IF visible THEN [phase |-> "done", pre |-> surface] ELSE NoEdit
    /\ round' = NoRound

StartStroke ==
    /\ Spend("calls")
    /\ \E t \in Clock : now' = t /\ Install(start_stroke(Self, t))
    /\ op' = "start_stroke"
    /\ edit' = IF visible THEN [phase |-> "stroke", pre |-> surface] ELSE NoEdit
    /\ round' = NoRound

EndStroke ==
    /\ Spend("calls")
    /\ Install(end_stroke(Self))
    /\ op' = "end_stroke"
    /\ edit' = IF edit.phase = "stroke" THEN [edit EXCEPT !.phase = "done"] ELSE NoEdit
    /\ UNCHANGED now
    /\ round' = NoRound

DrawPoint(x, color, size_override) ==
    /\ Spend("calls")
    /\ \E t \in Clock :
          /\ now' = t
          /\ Install([draw_point(Self, t, [x |-> x], color, size_override)
                        EXCEPT !.overriding = size_override])
    /\ op' = "draw_point"
    /\ edit' = IF edit.phase = "stroke" THEN edit ELSE NoEdit
    /\ round' = NoRound

DrawLine(x1, x2, color, size_override) ==
    /\ Spend("calls")
    /\ \E t \in Clock :
          /\ now' = t
          /\ Install([draw_line(Self, t, [x1 |-> x1, x2 |-> x2], color, size_override)
                        EXCEPT !.overriding = size_override])
    /\ op' = "draw_line"
    /\ edit' = IF edit.phase = "stroke" THEN edit ELSE NoEdit
    /\ round' = NoRound

Next ==
    \/ Undo
    \/ Redo
    \/ ClearUndoHistory
    \/ \E e \in BOOLEAN : SetEnabled(e)
    \/ \E d \in Sizes \cup Images : SetImage(d)
    \/ \E s \in Sizes : Resize(s)
    \/ \E c \in Colors : Fill(c)
    \/ Clear
    \/ StartStroke
    \/ EndStroke
    \/ \E x \in Columns, c \in Colors : DrawPoint(x, c, None)
    \/ \E x1 \in Columns, x2 \in Columns, c \in Colors : DrawLine(x1, x2, c, None)

Spec == Init /\ [][Next]_vars

----------------------------------------------------------------------------
(* The capacity scenario: enough fill() calls to overflow the undo stack,  *)
(* each with the colour after the one the canvas shows, and a few other    *)
(* history calls anywhere in between.  The clock starts at its last value, *)
(* so that every snapshot of the scenario carries the same timestamp.      *)

CapFills == MAX_UNDO + CapExtra

InitCap ==
    /\ InitWith([fills |-> CapFills, calls |-> CapCalls], {QSize(1, 1)}, MaxTime)
    /\ view = None

NextColor == surface.px[1] + 1

NextCap ==
    \/ Fill(NextColor)
    \/ Clear
    \/ StartStroke
    \/ DrawPoint(0, NextColor, None)
    \/ EndStroke
    \/ Undo
    \/ Redo
    \/ ClearUndoHistory

SpecCap == InitCap /\ [][NextCap]_vars

----------------------------------------------------------------------------
(* Properties *)

(* The eviction scenario: fills of fresh colours, undo() and redo() only,  *)
(* so that a content seen again can only have come out of a stack.         *)
InitEvict ==
    /\ InitWith([fills |-> CapFills, calls |-> EvictCalls], {QSize(1, 1)}, MaxTime)
    /\ view = None

NextEvict ==
    \/ Fill(NextColor)
    \/ Undo
    \/ Redo

SpecEvict == InitEvict /\ [][NextEvict]_vars

(* The placement computation on its own: the arguments are any container   *)
(* rectangle, content size and margin of the bounds, and the one step      *)
(* applies get_scaled_placement to them.                                   *)
Sides == 0..MaxSide

Origins == {<<0, 0>>, <<1, 2>>}

Rects == {QRect(o[1], o[2], w, h) : o \in Origins, w \in Sides, h \in Sides}

(* Arguments beyond the small sides: the spec's worked example, and a      *)
(* content that leaves free space above and below inside a margin.         *)
Examples ==
    {[container_rect |-> QRect(0, 0, 500, 700), inner_size |-> QSize(1024, 1024),
      margin_width |-> 2, placement |-> None],
     [container_rect |-> QRect(0, 0, 12, 12), inner_size |-> QSize(3, 2),
      margin_width |-> 1, placement |-> None]}

InitPlace ==
    /\ InitWith([fills |-> 0, calls |-> 0], {QSize(1, 1)}, 0)
    /\ view \in Examples \cup
                {[container_rect |-> container_rect,
                  inner_size |-> QSize(w, h),
                  margin_width |-> margin_width,
                  placement |-> None] :
                     container_rect \in Rects, w \in Sides, h \in Sides,
                     margin_width \in 0..MaxMargin}

GetScaledPlacement ==
    /\ view.placement = None
    /\ view' = [view EXCEPT !.placement = get_scaled_placement(view.container_rect,
                                                               view.inner_size,
                                                               view.margin_width)]
    /\ UNCHANGED <<undo_stack, redo_stack, surface, size_attr, visible, enabled, drawing,
                   has_sketch, saved_image, brush_size, radius_log, saved_brush_size,
                   overriding, now, op, err, edit, round, evicted, budget>>

NextPlace == GetScaledPlacement

SpecPlace == InitPlace /\ [][NextPlace]_vars

(* ---- FixedAspectGraphicsView (util/fixed_aspect_graphics_view.py) ---- *)

(* A float is kept as the exact quotient [num, den] with den > 0. *)
Q(num, den) == IF den < 0 THEN [num |-> -num, den |-> -den] ELSE [num |-> num, den |-> den]

QPoint(x, y) == [x |-> x, y |-> y]

(* QPointF: both coordinates are quotients. *)
QPointF(x, y) == [x |-> x, y |-> y]

(* QTransform().scale(sx, sy) followed by translate(dx, dy): a point is     *)
(* moved by (dx, dy) and then scaled, map(p) = ((p.x + dx) * sx, ...).      *)
QTransform(sx, sy, dx, dy) == [sx |-> sx, sy |-> sy, dx |-> dx, dy |-> dy]

Identity == QTransform(Q(1, 1), Q(1, 1), 0, 0)

(* One coordinate of QTransform.inverted().map(): q / s - d; a transform   *)
(* that cannot be inverted (s = 0) inverts to the identity.                *)
InvertedMap(q, s, d, singular) ==
    IF singular THEN q ELSE Q(q.num * s.den - d * q.den * s.num, q.den * s.num)

(* QGraphicsView.mapToScene: the inverse of the view's transform (the      *)
(* view's own scroll offset is taken as zero).                             *)
mapToScene(self, point) ==
    LET t == self.transform
        singular == t.sx.num = 0 \/ t.sy.num = 0
    IN QPointF(InvertedMap(point.x, t.sx, t.dx, singular),
               InvertedMap(point.y, t.sy, t.dy, singular))

(* The mapping methods return [err, value]. *)
widget_to_scene_coords(self, point) ==
    [err |-> "none", value |-> mapToScene(self, QPointF(Q(point.x, 1), Q(point.y, 1)))]

scene_to_widget_coords(self, point) ==
    IF self.content_rect = None \/ self.content_size = None
    THEN [err |-> "AssertionError", value |-> None]
    ELSE IF self.content_size.w = 0 \/ self.content_size.h = 0
    THEN [err |-> "ZeroDivisionError", value |-> None]
    ELSE LET r == self.content_rect
             s == self.content_size
         IN [err |-> "none",
             value |-> QPointF(Q(r.x * s.w + point.x * r.width, s.w),
                               Q(r.y * s.h + point.y * r.height, s.h))]

(* Variant of _border_size without the added 1.                            *)
border_size_unraised(self) ==
    (IF self.width < self.height THEN self.width ELSE self.height) \div 40

border_size(self) == (IF self.width < self.height THEN self.width ELSE self.height) \div 40 + 1

(* resizeEvent: the placement is stored before the scale factors are       *)
(* computed, so a division by zero leaves the new placement and the old    *)
(* transform.  recomputed counts the calls of get_scaled_placement.        *)
resizeEvent(self) ==
    IF self.content_size = None
    THEN [self EXCEPT !.err = "RuntimeError"]
    ELSE LET content_rect == get_scaled_placement(QRect(0, 0, self.width, self.height),
                                                  self.content_size, border_size(self))
             placed == [self EXCEPT !.content_rect = content_rect, !.recomputed = @ + 1]
         IN IF self.content_size.w = 0 \/ self.content_size.h = 0
            THEN [placed EXCEPT !.err = "ZeroDivisionError"]
            ELSE [placed EXCEPT !.transform =
                     QTransform(Q(content_rect.width, self.content_size.w),
                                Q(content_rect.height, self.content_size.h),
                                content_rect.x, content_rect.y)]

(* Variant of the content_size setter without the test for an equal size.  *)
content_size_setter_always(self, new_size) ==
    resizeEvent([self EXCEPT !.content_size = new_size])

content_size_setter(self, new_size) ==
    IF new_size = self.content_size
    THEN self
    ELSE resizeEvent([self EXCEPT !.content_size = new_size])

(* -- the view as a state machine -- *)

(* Widget sizes, content sizes and points of the view scenario. *)
ViewSides == {1, 6, 40, 85}

ContentSizes == {QSize(0, 3), QSize(3, 0), QSize(1, 1), QSize(3, 8), QSize(8, 3), QSize(8, 8)}

ViewPoints == {QPoint(0, 0), QPoint(1, 2), QPoint(3, 3)}

ViewSelf ==
    [width |-> view.width, height |-> view.height,
     content_size |-> view.content_size, content_rect |-> view.content_rect,
     transform |-> view.transform, recomputed |-> view.recomputed, err |-> "none"]

NoAssign == [phase |-> "none", size |-> None, before |-> 0]

(* The view's fields after a call, with the call's argument and result. *)
InstallView(self, arg, mapped, assign) ==
    /\ view' = [width |-> self.width, height |-> self.height,
                content_size |-> self.content_size, content_rect |-> self.content_rect,
                transform |-> self.transform, recomputed |-> self.recomputed,
                arg |-> arg, mapped |-> mapped, assign |-> assign]
    /\ err' = self.err
    /\ UNCHANGED <<undo_stack, redo_stack, surface, size_attr, visible, enabled, drawing,
                   has_sketch, saved_image, brush_size, radius_log, saved_brush_size,
                   overriding, now, edit, round, evicted>>

(* FixedAspectGraphicsView(): no content size, no placement, the identity   *)
(* transform, and whatever size the toolkit gave the widget.                *)
InitView ==
    /\ InitWith([fills |-> 0, calls |-> ViewCalls], {QSize(1, 1)}, 0)
    /\ view \in {[width |-> w, height |-> h, content_size |-> None, content_rect |-> None,
                   transform |-> Identity, recomputed |-> 0,
                   arg |-> None, mapped |-> None, assign |-> NoAssign] :
                      w \in ViewSides, h \in ViewSides}

(* The toolkit gives the widget the size (w, h) and delivers the event;    *)
(* resizeEvent(None) is the case of an unchanged size.                     *)
ResizeEvent(w, h) ==
    /\ Spend("calls")
    /\ InstallView(resizeEvent([ViewSelf EXCEPT !.width = w, !.height = h]),
                   QSize(w, h), None, NoAssign)
    /\ op' = "resizeEvent"

SetContentSize(new_size) ==
    /\ Spend("calls")
    /\ InstallView(content_size_setter(ViewSelf, new_size), new_size, None,
                   IF view.assign.phase = "first" /\ view.assign.size = new_size
                   THEN [view.assign EXCEPT !.phase = "second"]
                   ELSE IF new_size # view.content_size
                   THEN [phase |-> "first", size |-> new_size, before |-> view.recomputed]
                   ELSE NoAssign)
    /\ op' = "content_size"

SceneToWidgetCoords(point) ==
    /\ Spend("calls")
    /\ LET mapped == scene_to_widget_coords(ViewSelf, point)
       IN InstallView([ViewSelf EXCEPT !.err = mapped.err], point, mapped, NoAssign)
    /\ op' = "scene_to_widget_coords"

WidgetToSceneCoords(point) ==
    /\ Spend("calls")
    /\ LET mapped == widget_to_scene_coords(ViewSelf, point)
       IN InstallView([ViewSelf EXCEPT !.err = mapped.err], point, mapped, NoAssign)
    /\ op' = "widget_to_scene_coords"

NextView ==
    \/ \E w \in ViewSides, h \in ViewSides : ResizeEvent(w, h)
    \/ \E new_size \in ContentSizes : SetContentSize(new_size)
    \/ \E point \in ViewPoints : SceneToWidgetCoords(point)
    \/ \E point \in ViewPoints : WidgetToSceneCoords(point)

SpecView == InitView /\ [][NextView]_vars

ImagesIn(stack) == [i \in 1..Len(stack) |-> stack[i].image]

FillsDone == CapFills - budget.fills

(* The image undo()/redo() installs for a stored image: the image itself,  *)
(* or its rescaling when its size is not the canvas's.                     *)
Fitted(image) ==
    IF SizeOf(image) # SizeOf(surface) THEN Scaled(image, SizeOf(surface)) ELSE image

(* C1: in every reachable state the undo stack holds at most MAX_UNDO      *)
(* entries.                                                                *)
C1_UndoStackBounded == Len(undo_stack) <= MAX_UNDO

(* More than MAX_UNDO saves in a row have been made and the stack is full. *)
C1_Witness ==
    /\ FillsDone > MAX_UNDO
    /\ budget.calls = CapCalls
    /\ Len(undo_stack) = MAX_UNDO

(* C2: after N > MAX_UNDO consecutive saves of distinct contents (the      *)
(* k-th save captures the canvas filled with colour k-1) the undo stack    *)
(* holds exactly the last MAX_UNDO snapshots saved, oldest first.          *)
C2_KeepsMostRecent ==
    (budget.calls = CapCalls /\ FillsDone > MAX_UNDO) =>
        ImagesIn(undo_stack) =
            [i \in 1..MAX_UNDO |-> Filled(SizeOf(surface), FillsDone - MAX_UNDO + i - 1)]

(* All the fills of the scenario were made in a row: CapExtra snapshots    *)
(* have been dropped.                                                      *)
C2_Witness ==
    /\ FillsDone = CapFills
    /\ budget.calls = CapCalls
    /\ undo_stack[1].image = Filled(SizeOf(surface), CapExtra)
    /\ surface = Filled(SizeOf(surface), CapFills)

(* C3: on a visible canvas, an undo() called right after one edit (fill,   *)
(* clear, or start_stroke, draws, end_stroke) installs the content the     *)
(* canvas had just before that edit began.                                 *)
C3_UndoRevertsEdit ==
    edit.phase = "undone" => (surface = edit.pre /\ err = "none")

(* An edit that changed the content has been undone: the redo entry holds  *)
(* the edited content, which differs from the restored one.                *)
C3_Witness ==
    /\ edit.phase = "undone"
    /\ op = "undo"
    /\ Len(redo_stack) > 0
    /\ Last(redo_stack).image # surface

(* C3 again for a stroke with at least one draw that painted something.    *)
C3_WitnessStroke ==
    /\ C3_Witness
    /\ drawing = FALSE
    /\ has_sketch
    /\ budget.calls = MaxCalls - 4

C5_MutationsClearRedo ==
    [][(/\ \/ op' \in {"start_stroke", "fill", "clear", "draw_point", "draw_line",
                      "set_image", "resize"}
           \/ (op' = "set_enabled" /\ visible /\ ~visible')
        /\ surface' # surface)
       => redo_stack' = <<>>]_vars

(* C6: _save_undo_state pushes a snapshot equal to the current content on  *)
(* top of the undo stack; with clear_redo_stack it leaves the redo stack   *)
(* empty, without it it leaves the redo stack as it was.  Stated of the    *)
(* call made in any reachable state, at any time the clock can show.       *)
C6_SaveUndoState ==
    \A t \in Clock, clear_redo_stack \in BOOLEAN :
        LET saved == save_undo_state(Self, t, clear_redo_stack)
        IN /\ Len(saved.undo_stack) > 0
           /\ Last(saved.undo_stack) = UndoState(surface, t)
           /\ Len(undo_stack) < MAX_UNDO => Front(saved.undo_stack) = undo_stack
           /\ saved.redo_stack = (IF clear_redo_stack THEN <<>> ELSE redo_stack)
           /\ saved.surface = surface

(* redo() has made its save (clear_redo_stack false) on a canvas whose     *)
(* undo stack already held an entry.                                       *)
C6_Witness ==
    /\ op = "redo"
    /\ err = "AttributeError"
    /\ Len(undo_stack) >= 2
    /\ Last(undo_stack).image = surface

(* C7, as stated: with a non-empty undo stack one undo() removes exactly   *)
(* the last undo entry and installs it as the content, appends to the redo *)
(* stack exactly one entry, equal to the content before the call, and      *)
(* leaves all other entries of both stacks alone.                          *)
C7_UndoInstallsEntry ==
    [][(op' = "undo" /\ Len(undo_stack) > 0) =>
        /\ undo_stack' = Front(undo_stack)
        /\ surface' = Last(undo_stack).image
        /\ Len(redo_stack') = Len(redo_stack) + 1
        /\ Front(redo_stack') = redo_stack
        /\ Last(redo_stack').image = surface]_vars

(* C7, amended: the entry is installed as it is when it has the canvas's   *)
(* size, and rescaled to the canvas's size otherwise.                      *)
C7_UndoInstallsFittedEntry ==
    [][(op' = "undo" /\ Len(undo_stack) > 0) =>
        /\ undo_stack' = Front(undo_stack)
        /\ surface' = Fitted(Last(undo_stack).image)
        /\ SizeOf(surface') = SizeOf(surface)
        /\ Len(redo_stack') = Len(redo_stack) + 1
        /\ Front(redo_stack') = redo_stack
        /\ Last(redo_stack').image = surface
        /\ err' = "none"]_vars

(* An undo() has moved one entry, changing the content, while another      *)
(* entry stayed where it was.                                              *)
C7_Witness ==
    /\ op = "undo"
    /\ Len(redo_stack) > 0
    /\ Len(undo_stack) + Len(redo_stack) > 1
    /\ Last(redo_stack).image # surface

(* C8: with a non-empty redo stack one redo() appends the content before   *)
(* the call to the undo stack, removes exactly the last redo entry,        *)
(* installs that entry's image (rescaled if its size differs) as the       *)
(* content and keeps the other redo entries.                               *)
C8_RedoInstallsEntry ==
    [][(op' = "redo" /\ Len(redo_stack) > 0) =>
        /\ Last(undo_stack').image = surface
        /\ redo_stack' = Front(redo_stack)
        /\ surface' = Fitted(Last(redo_stack).image)
        /\ err' = "none"]_vars

(* C9: redo_count() is the depth of the redo stack and undo_count() the    *)
(* depth of the undo stack, in every reachable state.                      *)
C9_CountsAreDepths ==
    /\ undo_count(Self) = Len(undo_stack)
    /\ redo_count(Self) = Len(redo_stack)

(* C10: last_undo_timestamp() returns the timestamp of the top undo entry, *)
(* or None when the undo stack is empty; last_redo_timestamp() the same of *)
(* the redo stack, whatever the undo stack holds.                          *)
C10_LastTimestamps ==
    /\ last_undo_timestamp(Self) =
          [err |-> "none",
           value |-> IF Len(undo_stack) = 0 THEN None ELSE Some(Last(undo_stack).timestamp)]
    /\ last_redo_timestamp(Self) =
          [err |-> "none",
           value |-> IF Len(redo_stack) = 0 THEN None ELSE Some(Last(redo_stack).timestamp)]

(* C11: no history operation ends in an error: after any sequence of       *)
(* saves, undo(), redo() and clear_undo_history() no call has raised, and  *)
(* the timestamp queries made in the state reached return without raising  *)
(* (undo_count and redo_count only read a length).                         *)
C11_HistoryOpsNeverFail ==
    /\ err = "none"
    /\ last_undo_timestamp(Self).err = "none"
    /\ last_redo_timestamp(Self).err = "none"

(* C12: undo() called with an empty undo stack changes nothing of the      *)
(* canvas (content, undo stack, redo stack, nor any other field) and       *)
(* raises nothing.                                                         *)
C12_UndoOnEmptyIsNoOp ==
    [][(op' = "undo" /\ Len(undo_stack) = 0) =>
        /\ UNCHANGED <<surface, undo_stack, redo_stack>>
        /\ UNCHANGED <<size_attr, visible, enabled, drawing, has_sketch, saved_image>>
        /\ err' = "none"]_vars

(* undo() has returned from a call made with an empty undo stack, on a     *)
(* canvas whose content is not blank.                                      *)
C12_Witness ==
    /\ op = "undo"
    /\ round.phase = "none"
    /\ Len(undo_stack) = 0
    /\ surface # Blank(SizeOf(surface))

(* C13: redo() called with an empty redo stack changes nothing of the      *)
(* canvas (content, undo stack, redo stack, nor any other field).          *)
C13_RedoOnEmptyIsNoOp ==
    [][(op' = "redo" /\ Len(redo_stack) = 0) =>
        /\ UNCHANGED <<surface, undo_stack, redo_stack>>
        /\ UNCHANGED <<size_attr, visible, enabled, drawing, has_sketch, saved_image>>
        /\ err' = "none"]_vars

(* redo() has returned from a call made with an empty redo stack while the *)
(* undo stack held an entry: a redo() that finds an entry always raises.   *)
C13_Witness ==
    /\ op = "redo"
    /\ err = "none"
    /\ Len(redo_stack) = 0
    /\ Len(undo_stack) > 0

(* C14: from an empty history, MAX_UNDO + 5 saves in a row leave           *)
(* undo_count() = MAX_UNDO; one undo() after them leaves                   *)
(* undo_count() = MAX_UNDO - 1 and redo_count() = 1.                       *)
C14_CountsAtCapacity ==
    /\ (FillsDone = MAX_UNDO + 5 /\ budget.calls = CapCalls) =>
           undo_count(Self) = MAX_UNDO
    /\ (FillsDone = MAX_UNDO + 5 /\ budget.calls = CapCalls - 1 /\ op = "undo") =>
           (undo_count(Self) = MAX_UNDO - 1 /\ redo_count(Self) = 1)

(* One step has pushed exactly one entry on the undo stack and kept the    *)
(* entries below it (no entry is dropped below the capacity).              *)
SavedOnce ==
    /\ Len(undo_stack') = Len(undo_stack) + 1
    /\ Front(undo_stack') = undo_stack

(* C15, as stated: every logical edit saves exactly once.  A stroke is     *)
(* start_stroke, draws, end_stroke (in the widget: press, moves, release): *)
(* its start_stroke pushes one undo entry and its draws and its end_stroke *)
(* push none; each fill and each clear pushes one.                         *)
C15_OneSavePerEdit ==
    [][/\ op' \in {"fill", "clear", "start_stroke"} => SavedOnce
       /\ (op' \in {"draw_point", "draw_line", "end_stroke"} /\ edit.phase = "stroke") =>
              undo_stack' = undo_stack]_vars

(* C15, amended: the same of the edits made on a visible canvas.           *)
C15_OneSavePerVisibleEdit ==
    [][/\ (op' \in {"fill", "clear", "start_stroke"} /\ visible) => SavedOnce
       /\ (op' \in {"draw_point", "draw_line", "end_stroke"} /\ edit.phase = "stroke") =>
              undo_stack' = undo_stack]_vars

(* A stroke that painted something has ended: the undo stack holds the one *)
(* entry its start_stroke pushed, the content before the stroke.           *)
C15_Witness ==
    /\ op = "end_stroke"
    /\ edit.phase = "done"
    /\ has_sketch
    /\ surface # edit.pre
    /\ ImagesIn(undo_stack) = <<edit.pre>>

(* A step has left a stack's stored entries as they were: the new stack is *)
(* a prefix of the old one, with at most one entry pushed on it, and a     *)
(* pushed entry holds the content the canvas had when the step began.      *)
Unaltered(old, new) ==
    \E k \in 0..Len(old) :
        /\ Len(new) \in {k, k + 1}
        /\ SubSeq(new, 1, k) = SubSeq(old, 1, k)
        /\ Len(new) = k + 1 => new[k + 1].image = surface

(* C16: a stored snapshot never changes after it was captured: whatever a  *)
(* call does to the live content, every entry that stays on the undo or    *)
(* the redo stack is as it was, and an entry pushed by the call equals the *)
(* content at the time of its capture, not the content the call leaves.    *)
C16_SnapshotsImmutable ==
    [][/\ Unaltered(undo_stack, undo_stack')
       /\ Unaltered(redo_stack, redo_stack')]_vars

(* A draw inside a stroke has changed the live content; the snapshot taken *)
(* when the stroke began still shows the content of that time.             *)
C16_Witness ==
    /\ op \in {"draw_point", "draw_line"}
    /\ edit.phase = "stroke"
    /\ Len(undo_stack) > 0
    /\ Last(undo_stack).image = edit.pre
    /\ surface # edit.pre

(* C17: clear_undo_history() leaves both stacks empty and the content (and *)
(* every other field of the canvas) as it was.                             *)
C17_ClearUndoHistory ==
    [][op' = "clear_undo_history" =>
        /\ undo_stack' = <<>>
        /\ redo_stack' = <<>>
        /\ UNCHANGED <<surface, size_attr, visible, enabled, drawing, has_sketch, saved_image>>
        /\ err' = "none"]_vars

(* clear_undo_history() has returned on a canvas that had been filled or   *)
(* drawn on, which put at least one entry into the history.                *)
C17_Witness ==
    /\ op = "clear_undo_history"
    /\ has_sketch
    /\ surface # Blank(SizeOf(surface))
    /\ undo_stack = <<>>
    /\ redo_stack = <<>>

(* C18: a snapshot dropped for capacity is lost for good: it is not on the *)
(* redo stack, and no undo() or redo() made afterwards installs it as the  *)
(* content.  The fills of the scenario never paint a dropped content      *)
(* again, so the content equals a dropped snapshot only if that one was    *)
(* installed.                                                              *)
C18_EvictedIsLost ==
    \A image \in evicted :
        /\ \A i \in 1..Len(redo_stack) : redo_stack[i].image # image
        /\ surface # image

(* Snapshots have been dropped, and undo() was then called twice or more:  *)
(* two entries have moved to the redo stack.                               *)
C18_Witness ==
    /\ Cardinality(evicted) >= 2
    /\ op = "undo"
    /\ Len(redo_stack) >= 2
    /\ Len(undo_stack) = MAX_UNDO - 2

(* C19: when undo() or redo() restores a snapshot whose size differs from  *)
(* the canvas's size, the snapshot is scaled to the canvas's size and      *)
(* installed: the canvas has the size it had before and nothing is raised. *)
C19_RestoreKeepsSize ==
    [][/\ (/\ op' = "undo"
           /\ Len(undo_stack) > 0
           /\ SizeOf(Last(undo_stack).image) # size(Self))
          => /\ surface' = Scaled(Last(undo_stack).image, size(Self))
             /\ SizeOf(surface') = size(Self)
             /\ err' = "none"
       /\ (/\ op' = "redo"
           /\ Len(redo_stack) > 0
           /\ SizeOf(Last(redo_stack).image) # size(Self))
          => /\ surface' = Scaled(Last(redo_stack).image, size(Self))
             /\ SizeOf(surface') = size(Self)
             /\ err' = "none"]_vars

(* C20: for every container rectangle, content size and margin, also when  *)
(* the container is smaller than twice the margin, the rectangle that      *)
(* get_scaled_placement returns has a non-negative size and lies inside    *)
(* the container rectangle.                                                *)
C20_PlacementInsideContainer ==
    (view # None /\ view.placement # None) =>
        LET placement == view.placement
            container_rect == view.container_rect
        IN /\ placement.width >= 0
           /\ placement.height >= 0
           /\ placement.x >= container_rect.x
           /\ placement.y >= container_rect.y
           /\ placement.x + placement.width <= container_rect.x + container_rect.width
           /\ placement.y + placement.height <= container_rect.y + container_rect.height

(* C21: recomputing the placement never raises when the content width or  *)
(* height is 0: a resize event, or an assignment of content_size that      *)
(* recomputes, made with such a content size ends without an error.        *)
C21_ZeroContentNeverRaises ==
    [][(/\ op' \in {"resizeEvent", "content_size"}
        /\ view'.content_size # None
        /\ (view'.content_size.w = 0 \/ view'.content_size.h = 0))
       => err' = "none"]_vars

(* The quotient q is within 1 of the integer v. *)
Near(q, v) == q.num - v * q.den <= q.den /\ v * q.den - q.num <= q.den

(* The points inside the bounds of a content of the given size. *)
ContentPoints(content_size) ==
    {QPoint(x, y) : x \in 0..(content_size.w - 1), y \in 0..(content_size.h - 1)}

Placed ==
    LET p == view.placement
        c == view.container_rect
        s == view.inner_size
        m == view.margin_width
        w == c.width - 2 * m
        h == c.height - 2 * m
        den_w == IF s.w > 1 THEN s.w ELSE 1
        den_h == IF s.h > 1 THEN s.h ELSE 1
    IN [w |-> w, h |-> h,
        size |-> IF h * den_w < w * den_h
                 THEN QSize(Trunc(s.w * h, den_h), Trunc(s.h * h, den_h))
                 ELSE QSize(Trunc(s.w * w, den_w), Trunc(s.h * w, den_w)),
        left |-> p.x - (c.x + m),
        right |-> (c.x + c.width - m) - (p.x + p.width),
        top |-> p.y - (c.y + m),
        bottom |-> (c.y + c.height - m) - (p.y + p.height)]

(* A placement was computed for a container at least twice the margin wide *)
(* and high.                                                               *)
PlacedInRoom ==
    /\ view # None
    /\ view.placement # None
    /\ view.container_rect.width >= 2 * view.margin_width
    /\ view.container_rect.height >= 2 * view.margin_width

(* The placement has the claimed size, fits in the reduced container,      *)
(* fills it along one axis when the content is not empty, and leaves free  *)
(* space on the two sides of each axis that differs by at most slack.      *)
LargestCentred(slack) ==
    /\ QSize(view.placement.width, view.placement.height) = Placed.size
    /\ 0 <= view.placement.width /\ view.placement.width <= Placed.w
    /\ 0 <= view.placement.height /\ view.placement.height <= Placed.h
    /\ (view.inner_size.w > 0 /\ view.inner_size.h > 0) =>
           (view.placement.width = Placed.w \/ view.placement.height = Placed.h)
    /\ Placed.left - Placed.right <= slack /\ Placed.right - Placed.left <= slack
    /\ Placed.top - Placed.bottom <= slack /\ Placed.bottom - Placed.top <= slack

C24_WorkedExample ==
    (/\ view # None
     /\ view.placement # None
     /\ view.container_rect = QRect(0, 0, 500, 700)
     /\ view.inner_size = QSize(1024, 1024)
     /\ view.margin_width = 2)
    => view.placement = QRect(2, 102, 496, 496)

(* The placement of the worked example has been computed.                  *)
C24_Witness ==
    /\ view # None
    /\ view.container_rect = QRect(0, 0, 500, 700)
    /\ view.inner_size = QSize(1024, 1024)
    /\ view.margin_width = 2
    /\ view.placement # None
    /\ view.placement.width = 496

(* C25: a coordinate mapping (widget_to_scene_coords or                    *)
(* scene_to_widget_coords) called while the content size or the content    *)
(* rectangle is still unset ends in an error and returns no point.         *)
C25_MappingBeforePlacementFails ==
    [][(/\ op' \in {"widget_to_scene_coords", "scene_to_widget_coords"}
        /\ (view.content_size = None \/ view.content_rect = None))
       => (err' # "none" /\ view'.mapped.value = None)]_vars

(* C26: assigning content_size the value it already has changes no field   *)
(* of the view and recomputes no placement; when the same new size is      *)
(* assigned twice in a row, the placement has been recomputed exactly once *)
(* after the two assignments.                                              *)
C26_ContentSizeIdempotent ==
    [][op' = "content_size" =>
        /\ view'.arg = view.content_size =>
              /\ view'.width = view.width /\ view'.height = view.height
              /\ view'.content_size = view.content_size
              /\ view'.content_rect = view.content_rect
              /\ view'.transform = view.transform
              /\ view'.recomputed = view.recomputed
              /\ err' = "none"
        /\ view'.assign.phase = "second" =>
              view'.recomputed = view'.assign.before + 1]_vars

(* The same new size has been assigned twice in a row, after an earlier    *)
(* placement for another size.                                             *)
C26_Witness ==
    /\ op = "content_size"
    /\ view # None
    /\ view.assign.phase = "second"
    /\ view.assign.before > 0
    /\ view.content_size = view.assign.size
    /\ view.content_rect # None

(* floor(min(containerWidth, containerHeight) / 40) + 1 *)
BorderWidth(width, height) == (IF width < height THEN width ELSE height) \div 40 + 1

(* C27: once the content size is set, after every resize event and every   *)
(* effective change of the content size the stored placement is the        *)
(* placement of the current content size in the current widget rectangle   *)
(* with the border width floor(min(width, height) / 40) + 1, which is at   *)
(* least 1.                                                                *)
C27_StoredPlacementIsCurrent ==
    (view # None /\ view.content_size # None) =>
        /\ BorderWidth(view.width, view.height) >= 1
        /\ border_size(ViewSelf) = BorderWidth(view.width, view.height)
        /\ view.content_rect =
              get_scaled_placement(QRect(0, 0, view.width, view.height), view.content_size,
                                   BorderWidth(view.width, view.height))

(* A resize event has given a view with a placement another size, one with *)
(* a border wider than 1, and the placement was computed again.            *)
C27_Witness ==
    /\ op = "resizeEvent"
    /\ err = "none"
    /\ view # None
    /\ view.recomputed >= 2
    /\ BorderWidth(view.width, view.height) > 1
    /\ view.arg = QSize(view.width, view.height)
    /\ view.content_rect # None
    /\ view.content_rect.width > 0

(* C28: while the canvas is disabled, start_stroke, draw_point, draw_line, *)
(* fill and clear are ignored: each leaves the content, the undo stack and *)
(* the redo stack as they were.                                            *)
C28_DisabledIgnoresDrawing ==
    [][(/\ ~enabled
        /\ op' \in {"start_stroke", "draw_point", "draw_line", "fill", "clear"})
       => UNCHANGED <<surface, undo_stack, redo_stack>>]_vars

(* C29: from set_enabled(False) until set_enabled(True) the rendered       *)
(* surface stays empty, whatever is called in between.                     *)
C29_DisabledSurfaceEmpty ==
    ~enabled => surface = Blank(SizeOf(surface))

(* C30: has_sketch() is true exactly when the canvas holds image data that *)
(* is not empty.                                                           *)
C30_HasSketchIffContent ==
    has_sketch <=> surface # Blank(SizeOf(surface))

----------------------------------------------------------------------------
(* ---- Brush size (Canvas.set_brush_size, MypaintCanvas._draw) ---- *)

(* Values of the panel's size slider and spin box (0 to 300) that the     *)
(* scenario sets, and the size_override arguments it passes.              *)
BrushSizes == {0, 2, 300}

Overrides == {None, Some(0), Some(4)}

SetBrushSize(brush) ==
    /\ Spend("calls")
    /\ Install(set_brush_size(Self, brush))
    /\ op' = "set_brush_size"
    /\ edit' = NoEdit
    /\ UNCHANGED now
    /\ round' = NoRound

(* The brush scenario: sizes set from the panel, and strokes whose draw   *)
(* calls pass a size_override or none, on a canvas that can be disabled.  *)
InitBrush ==
    /\ InitWith([fills |-> 0, calls |-> BrushCalls], {QSize(1, 1)}, MaxTime)
    /\ view = None

NextBrush ==
    \/ \E brush \in BrushSizes : SetBrushSize(brush)
    \/ StartStroke
    \/ EndStroke
    \/ \E size_override \in Overrides : DrawPoint(0, 1, size_override)
    \/ \E size_override \in Overrides : DrawLine(0, 0, 1, size_override)
    \/ \E e \in BOOLEAN : SetEnabled(e)

SpecBrush == InitBrush /\ [][NextBrush]_vars

(* C31: a size_override applies to the draw call it is passed to only: a   *)
(* later draw call without one, made on a visible canvas while the        *)
(* replaced size is still kept (and the engine holds the radius of the    *)
(* overriding size), draws with the radius of that base size, and an      *)
(* end_stroke() that returns makes brush_size() that base size.           *)
C31_OverrideOneCallOnly ==
    [][/\ (/\ op' \in {"draw_point", "draw_line"}
           /\ visible
           /\ overriding' = None
           /\ saved_brush_size # None
           /\ radius_log = Log(brush_size, 2)
           /\ err' = "none")
          => radius_log' = Log(saved_brush_size.value, 2)
       /\ (/\ op' = "end_stroke"
           /\ visible
           /\ saved_brush_size # None
           /\ err' = "none")
          => brush_size' = saved_brush_size.value]_vars

(* C38: set_brush_size() returns for every value of the slider, and after *)
(* the call brush_size() is the size whose radius the engine holds.       *)
C38_SetBrushSizeTotal ==
    [][op' = "set_brush_size"
       => err' = "none" /\ radius_log' = Log(brush_size_of(Self)', 2)]_vars

(* C32: in every reachable state the undo stack and the redo stack hold    *)
(* at most MAX_UNDO entries together, so the redo stack never holds more  *)
(* than MAX_UNDO, and the save made inside redo() drops no undo entry.    *)
C32_StacksShareCapacity ==
    /\ Len(undo_stack) + Len(redo_stack) <= MAX_UNDO
    /\ [][/\ Len(undo_stack') + Len(redo_stack') <= MAX_UNDO
          /\ Len(redo_stack') <= MAX_UNDO
          /\ op' = "redo" => Dropped(undo_stack, undo_stack') = {}]_vars

(* redo() has made its save with the two stacks full between them: the   *)
(* undo stack is full again.                                              *)
C32_Witness ==
    /\ op = "redo"
    /\ Len(undo_stack) = MAX_UNDO
    /\ Len(undo_stack) + Len(redo_stack) = MAX_UNDO

(* C33: redo() is all or nothing: it returns having installed the newest  *)
(* redo entry as the content, with that entry popped and the content it   *)
(* replaced on top of the undo stack, or it leaves the content and both   *)
(* stacks as they were.                                                    *)
C33_RedoAllOrNothing ==
    [][op' = "redo" =>
        \/ /\ err' = "none"
           /\ Len(redo_stack) > 0
           /\ surface' = Fitted(Last(redo_stack).image)
           /\ redo_stack' = Front(redo_stack)
           /\ Last(undo_stack').image = surface
        \/ UNCHANGED <<surface, undo_stack, redo_stack>>]_vars

(* k calls of a method one after the other; a call that raises ends the   *)
(* sequence.                                                               *)
RECURSIVE Undos(_, _, _)
Undos(self, t, k) ==
    IF k = 0 \/ self.err # "none" THEN self ELSE Undos(undo(self, t), t, k - 1)

RECURSIVE Redos(_, _, _)
Redos(self, t, k) ==
    IF k = 0 \/ self.err # "none" THEN self ELSE Redos(redo(self, t), t, k - 1)

(* C34: for every k up to the depth of the undo stack, k calls of undo()  *)
(* followed by k calls of redo() return, with the content and the images  *)
(* of the undo stack as before the first undo() and the redo stack as it  *)
(* was.  Stated of the calls made in any reachable state.                 *)
C34_UndosThenRedosRestore ==
    \A k \in 1..Len(undo_stack) :
        LET back == Redos(Undos(Self, now, k), now, k)
        IN /\ back.err = "none"
           /\ back.surface = surface
           /\ ImagesIn(back.undo_stack) = ImagesIn(undo_stack)
           /\ back.redo_stack = redo_stack

(* C35: set_enabled(False) followed at once by set_enabled(True) is not an *)
(* edit: the content, the undo stack and the redo stack are afterwards    *)
(* what they were before.  Stated of the two calls made in any reachable  *)
(* state in which the canvas is enabled.                                   *)
C35_DisableEnableIsNoEdit ==
    enabled =>
        LET back == set_enabled(set_enabled(Self, now, FALSE), now, TRUE)
        IN /\ back.err = "none"
           /\ back.surface = surface
           /\ back.undo_stack = undo_stack
           /\ back.redo_stack = redo_stack

(* C36: on a visible canvas a draw_point or draw_line call made while no  *)
(* stroke is active starts a stroke and pushes exactly one undo entry,    *)
(* the content before the drawing; a draw made while a stroke is active   *)
(* pushes nothing; end_stroke ends the stroke; and no other call than a   *)
(* stroke start or an end_stroke changes the drawing flag.                *)
C36_DrawStartsStroke ==
    [][visible =>
        /\ (op' \in {"draw_point", "draw_line"} /\ ~drawing /\ err' = "none") =>
              /\ drawing'
              /\ SavedOnce
              /\ Last(undo_stack').image = surface
        /\ (op' \in {"draw_point", "draw_line"} /\ drawing) =>
              /\ drawing'
              /\ UNCHANGED <<undo_stack, redo_stack>>
        /\ op' = "start_stroke" => drawing'
        /\ op' = "end_stroke" => ~drawing'
        /\ op' \notin {"draw_point", "draw_line", "start_stroke", "end_stroke"} =>
              UNCHANGED drawing]_vars

(* The first call on the canvas was a draw_line: it started the stroke,   *)
(* saved the blank content and then painted.                              *)
C36_Witness ==
    /\ op = "draw_line"
    /\ visible
    /\ drawing
    /\ budget.calls = MaxCalls - 1
    /\ Len(undo_stack) = 1
    /\ undo_stack[1].image # surface

(* C37: in every reachable state the canvas reports one size: width() is  *)
(* the width of size() and height() the height of size().                 *)
C37_OneConsistentSize ==
    /\ canvas_width(Self) = size(Self).w
    /\ canvas_height(Self) = size(Self).h

----------------------------------------------------------------------------
(* ---- The demo window's actions (demo.py, canvas_panel.py) ---- *)

(* CanvasPanel.undo() and redo() call the widget's, which call the        *)
(* canvas's and repaint.                                                   *)
CanvasPanel_undo(self, t) == undo(self, t)

CanvasPanel_redo(self, t) == redo(self, t)

(* The slot connected to the triggered signal of the action created with  *)
(* each text: both connect calls name cwidget.undo.                        *)
triggered(text, self, t) ==
    CASE text = "Undo" -> CanvasPanel_undo(self, t)
      [] text = "Redo" -> CanvasPanel_undo(self, t)

Trigger(text) ==
    /\ Spend("calls")
    /\ \E t \in Clock : now' = t /\ Install(triggered(text, Self, t))
    /\ op' = text
    /\ edit' = NoEdit
    /\ round' = NoRound

(* The demo window: a canvas painted by the panel's fill button, and the  *)
(* two actions triggered in any order.                                     *)
InitMenu ==
    /\ InitWith([fills |-> MenuFills, calls |-> MenuCalls], Sizes, 0)
    /\ view = None

NextMenu ==
    \/ \E c \in Colors : Fill(c)
    \/ Trigger("Undo")
    \/ Trigger("Redo")

SpecMenu == InitMenu /\ [][NextMenu]_vars

(* What a call must have left of the canvas for a step to be that call. *)
Ran(after) ==
    /\ surface' = after.surface
    /\ undo_stack' = after.undo_stack
    /\ redo_stack' = after.redo_stack
    /\ err' = after.err

(* C39: triggering the 'Redo' action runs the panel's redo() and          *)
(* triggering the 'Undo' action runs the panel's undo().                   *)
C39_ActionsRunTheirOperation ==
    [][/\ op' = "Redo" => Ran(CanvasPanel_redo(Self, now'))
       /\ op' = "Undo" => Ran(CanvasPanel_undo(Self, now'))]_vars

====
